---- MODULE Spec2Model ----
(***************************************************************************)
(* CloudPulse ML service (src/ml-models/ml_service.py): the forecasting    *)
(* thread (load models, initial cycle, scheduler loop), the forecasting    *)
(* cycle statement by statement, and the Flask request handlers that read  *)
(* the shared state concurrently.                                          *)
(*                                                                         *)
(* Numbers: the numeric cells of a data frame are exact rationals          *)
(* <<num, den>> in lowest terms with den > 0; a standard deviation is kept *)
(* as the rational it is the square root of.                               *)
(* Timestamps are integers counted in units of the 5-minute stride.        *)
(***************************************************************************)
EXTENDS Integers, Sequences, FiniteSets, TLC

(***************************************************************************)
(* Bounds of the model.                                                    *)
(***************************************************************************)
\* number of configured agent endpoints (AGENT_ENDPOINTS)
NumEndpoints == 2
\* the cache limit of run_forecasting_cycle (1000 in the source, line 253),
\* scaled down so that the eviction branch is reached
CacheLimit == 2
\* number of rows of a forecast (steps=24 in the source), scaled down
Horizon == 2
\* cycles the forecasting thread starts within the model
MaxCycles == 2
\* cycles of the cache scenario: enough to overfill the cache twice
CacheCycles == CacheLimit + 2
\* instants datetime.now() can return when the cache key is taken
Instants == 1 .. (CacheLimit + 2)
\* timestamps an agent can report
DocTimes == {1}
\* rows of the snapshot sets given to detect_anomalies on its own: every
\* length up to MaxRows over three values, and LongRows rows with one or two
\* peaks (a z-score above 3 needs at least 11 rows)
MaxRows == 6
LongRows == 11

Endpoints == 1 .. NumEndpoints

(***************************************************************************)
(* Exact rationals.                                                        *)
(***************************************************************************)
Abs(x) == IF x < 0 THEN -x ELSE x

RECURSIVE Gcd(_, _)
Gcd(a, b) == IF b = 0 THEN a ELSE Gcd(b, a % b)

Rat(n, d) ==
    LET g == Gcd(Abs(n), Abs(d))
        s == IF d < 0 THEN -1 ELSE 1
    IN  <<(s * n) \div g, (s * d) \div g>>

RatOfInt(n) == <<n, 1>>
RatAdd(p, q) == Rat(p[1] * q[2] + q[1] * p[2], p[2] * q[2])
RatSub(p, q) == Rat(p[1] * q[2] - q[1] * p[2], p[2] * q[2])
RatMul(p, q) == Rat(p[1] * q[1], p[2] * q[2])
RatLess(p, q) == p[1] * q[2] < q[1] * p[2]

RECURSIVE RatSum(_)
RatSum(s) == IF s = <<>> THEN RatOfInt(0) ELSE RatAdd(Head(s), RatSum(Tail(s)))

\* arithmetic mean of a non-empty sequence of rationals
MeanOf(s) == RatMul(RatSum(s), Rat(1, Len(s)))

\* float NaN
NaN == <<0, 0>>

\* sample variance (ddof = 1, the pandas default of Series.std and
\* DataFrame.std); NaN for fewer than two values
SampleVar(s) ==
    IF Len(s) < 2 THEN NaN
    ELSE LET m == MeanOf(s)
             d == [i \in 1 .. Len(s) |->
                     LET e == RatSub(s[i], m) IN RatMul(e, e)]
         IN  RatMul(RatSum(d), Rat(1, Len(s) - 1))

(***************************************************************************)
(* Sequences and data frames.  A data frame is a function from column      *)
(* names to equally long sequences of cells.                               *)
(***************************************************************************)
Range(s) == {s[i] : i \in DOMAIN s}

RECURSIVE SortedSeq(_)
SortedSeq(S) ==
    IF S = {} THEN <<>>
    ELSE LET m == CHOOSE x \in S : \A y \in S : x <= y
         IN  <<m>> \o SortedSeq(S \ {m})

RECURSIVE SelectIdx(_, _, _)
\* the cells of column col at the rows i (ascending) with keep[i]
SelectIdx(col, keep, i) ==
    IF i > Len(col) THEN <<>>
    ELSE (IF keep[i] THEN <<col[i]>> ELSE <<>>) \o SelectIdx(col, keep, i + 1)

NumRows(df) == Len(df["timestamp"])

TrackedMetrics == <<"cpu_usage", "memory_usage", "network_io">>

\* Python values that are not frames, and raised exceptions
None == [type |-> "NoneType"]
EmptyDict == [type |-> "dict"]
KeyError == [type |-> "KeyError"]
ValueError == [type |-> "ValueError"]

(***************************************************************************)
(* Agents.  What GET {endpoint}/metrics can produce for endpoint e: a 200  *)
(* with a well-formed document, a 200 with a document that lacks the cpu   *)
(* block, a non-200 status, or an exception (timeout, transport error,     *)
(* undecodable body), written as status 0.                                 *)
(***************************************************************************)
GoodDoc(e, t) ==
    [timestamp |-> t, node_id |-> e,
     cpu |-> [usage_percent |-> 10 * e],
     memory |-> [used_percent |-> 40],
     network |-> [bytes_sent |-> e, bytes_recv |-> 2]]

MalformedDoc(e, t) ==
    [timestamp |-> t, node_id |-> e,
     memory |-> [used_percent |-> 40],
     network |-> [bytes_sent |-> e, bytes_recv |-> 2]]

Responses(e) ==
    {[status |-> 200, body |-> GoodDoc(e, t)] : t \in DocTimes}
        \cup {[status |-> 200, body |-> MalformedDoc(e, 1)]}
        \cup {[status |-> 503], [status |-> 0]}

\* metrics['node_endpoint'] = endpoint
TagEndpoint(m, endpoint) ==
    [k \in DOMAIN m \cup {"node_endpoint"} |->
        IF k = "node_endpoint" THEN endpoint ELSE m[k]]

\* AfterFetch without the except clause
AfterFetchUncaught(acc, endpoint, r) ==
    IF r.status = 0 THEN [raised |-> TRUE, all_metrics |-> acc]
    ELSE IF r.status = 200
    THEN [raised |-> FALSE, all_metrics |-> Append(acc, TagEndpoint(r.body, endpoint))]
    ELSE [raised |-> FALSE, all_metrics |-> acc]

\* one iteration of the loop of collect_metrics_from_agents on the response
\* r of endpoint: the new all_metrics, and whether an exception leaves the
\* loop.  The try block raises on r = exception; the except clause logs it
\* and the loop goes on.
AfterFetch(acc, endpoint, r) ==
    IF r.status = 0 THEN [raised |-> FALSE, all_metrics |-> acc]
    ELSE IF r.status = 200
    THEN [raised |-> FALSE, all_metrics |-> Append(acc, TagEndpoint(r.body, endpoint))]
    ELSE [raised |-> FALSE, all_metrics |-> acc]

(***************************************************************************)
(* process_metrics_data and aggregate_node_metrics.                        *)
(***************************************************************************)
\* the subscripts of process_metrics_data all succeed on m
HasRequiredFields(m) ==
    /\ {"cpu", "memory", "network", "timestamp", "node_id"} \subseteq DOMAIN m
    /\ "usage_percent" \in DOMAIN m.cpu
    /\ "used_percent" \in DOMAIN m.memory
    /\ {"bytes_sent", "bytes_recv"} \subseteq DOMAIN m.network

ProcessedRow(m) ==
    [timestamp |-> m.timestamp,
     node_id |-> m.node_id,
     cpu_usage |-> RatOfInt(m.cpu.usage_percent),
     memory_usage |-> RatOfInt(m.memory.used_percent),
     network_io |-> RatOfInt(m.network.bytes_sent + m.network.bytes_recv)]

\* process_metrics_data that skips a document lacking a field
process_metrics_data_skipping(metrics_list) ==
    LET good == SelectSeq(metrics_list, HasRequiredFields)
    IN  [c \in {"timestamp", "node_id", "cpu_usage", "memory_usage", "network_io"} |->
            [i \in DOMAIN good |-> ProcessedRow(good[i])[c]]]

\* KeyError when a document lacks a field, else the frame of the rows
process_metrics_data(metrics_list) ==
    IF \E i \in DOMAIN metrics_list : ~HasRequiredFields(metrics_list[i])
    THEN KeyError
    ELSE [c \in {"timestamp", "node_id", "cpu_usage", "memory_usage", "network_io"} |->
            [i \in DOMAIN metrics_list |-> ProcessedRow(metrics_list[i])[c]]]

RECURSIVE FirstSeen(_)
\* the distinct elements of s in the order of their first appearance
FirstSeen(s) ==
    IF s = <<>> THEN <<>>
    ELSE LET r == FirstSeen(SubSeq(s, 1, Len(s) - 1))
         IN  IF s[Len(s)] \in Range(r) THEN r ELSE Append(r, s[Len(s)])

\* aggregate_node_metrics with groupby(sort=False): groups in input order
aggregate_node_metrics_unsorted(df) ==
    LET ts == FirstSeen(df["timestamp"])
        grp(i) == [j \in DOMAIN df["timestamp"] |-> df["timestamp"][j] = ts[i]]
    IN  [c \in {"timestamp", "cpu_usage", "memory_usage", "network_io"} |->
            IF c = "timestamp" THEN ts
            ELSE [i \in DOMAIN ts |-> MeanOf(SelectIdx(df[c], grp(i), 1))]]

\* df.groupby('timestamp').agg(mean).reset_index(): groupby sorts the keys
aggregate_node_metrics(df) ==
    LET ts == SortedSeq(Range(df["timestamp"]))
        grp(i) == [j \in DOMAIN df["timestamp"] |-> df["timestamp"][j] = ts[i]]
    IN  [c \in {"timestamp", "cpu_usage", "memory_usage", "network_io"} |->
            IF c = "timestamp" THEN ts
            ELSE [i \in DOMAIN ts |-> MeanOf(SelectIdx(df[c], grp(i), 1))]]

(***************************************************************************)
(* The forecasting backends.  A trained model is a black box; its numeric  *)
(* output is fixed here per step i of the horizon.  predict raises when    *)
(* the library call fails (ok = FALSE), and LSTM's reshape raises when the *)
(* frame has fewer rows than sequence_length.                              *)
(***************************************************************************)
FutureTimes(df) ==
    [i \in 1 .. Horizon |-> df["timestamp"][NumRows(df)] + i]

\* LSTMForecaster.predict(df, steps)
LstmPredict(df, features, sequence_length, ok) ==
    IF ~ok \/ NumRows(df) < sequence_length
    THEN ValueError
    ELSE [c \in {"timestamp"} \cup features |->
            IF c = "timestamp" THEN FutureTimes(df)
            ELSE [i \in 1 .. Horizon |-> RatOfInt(10 * i)]]

\* ProphetForecaster.predict(df, steps): three columns per fitted metric
ProphetPredict(df, models, ok) ==
    IF ~ok \/ models = {}
    THEN ValueError
    ELSE LET yhat(i) == 10 * i + 20
             cell(kind, i) ==
                 CASE kind = "_predicted" -> RatOfInt(yhat(i))
                   [] kind = "_lower" -> RatOfInt(yhat(i) - 5)
                   [] kind = "_upper" -> RatOfInt(yhat(i) + 5)
             kinds == {"_predicted", "_lower", "_upper"}
             cols == {m \o k : m \in models, k \in kinds}
             kindOf(c) == CHOOSE k \in kinds : \E m \in models : c = m \o k
         IN  [c \in {"timestamp"} \cup cols |->
                IF c = "timestamp" THEN FutureTimes(df)
                ELSE [i \in 1 .. Horizon |-> cell(kindOf(c), i)]]

(***************************************************************************)
(* combine_forecasts.  forecasts is the dict in insertion order, a         *)
(* sequence of <<model_name, pred_df>>.                                    *)
(***************************************************************************)
\* the loop over forecasts.items(): the first frame is copied and its value
\* columns renamed, every later frame's value columns are added
RECURSIVE MergeModels(_, _, _)
MergeModels(forecasts, k, combined_df) ==
    IF k > Len(forecasts) THEN combined_df
    ELSE LET model_name == forecasts[k][1]
             pred_df == forecasts[k][2]
             value_cols == DOMAIN pred_df \ {"timestamp"}
             renamed == {col \o "_" \o model_name : col \in value_cols}
             src(c) == CHOOSE col \in value_cols : c = col \o "_" \o model_name
             kept == IF k = 1 THEN {"timestamp"} ELSE DOMAIN combined_df
             base == IF k = 1 THEN pred_df ELSE combined_df
         IN  MergeModels(forecasts, k + 1,
                 [c \in kept \cup renamed |->
                     IF c \in renamed THEN pred_df[src(c)] ELSE base[c]])

\* the cells of the columns cols of row i
RowCells(df, cols, i) == [j \in DOMAIN cols |-> df[cols[j]][i]]

StdCell(v) == [sqrt_of |-> v]

\* AddEnsembles with any() for all(): the ensemble of the columns present
RECURSIVE AddEnsemblesPartial(_, _, _)
AddEnsemblesPartial(forecasts, k, combined_df) ==
    IF k > Len(TrackedMetrics) THEN combined_df
    ELSE LET metric == TrackedMetrics[k]
             model_cols == [j \in DOMAIN forecasts |-> metric \o "_" \o forecasts[j][1]]
             present == SelectSeq(model_cols, LAMBDA c : c \in DOMAIN combined_df)
             rows == DOMAIN combined_df["timestamp"]
         IN  IF present # <<>>
             THEN AddEnsemblesPartial(forecasts, k + 1,
                      [c \in DOMAIN combined_df \cup {metric \o "_ensemble", metric \o "_std"} |->
                          IF c = metric \o "_ensemble"
                          THEN [i \in rows |-> MeanOf(RowCells(combined_df, present, i))]
                          ELSE IF c = metric \o "_std"
                          THEN [i \in rows |->
                                   StdCell(SampleVar(RowCells(combined_df, present, i)))]
                          ELSE combined_df[c]])
             ELSE AddEnsemblesPartial(forecasts, k + 1, combined_df)

\* the loop over metrics: ensemble and std columns of one metric
RECURSIVE AddEnsembles(_, _, _)
AddEnsembles(forecasts, k, combined_df) ==
    IF k > Len(TrackedMetrics) THEN combined_df
    ELSE LET metric == TrackedMetrics[k]
             model_cols == [j \in DOMAIN forecasts |-> metric \o "_" \o forecasts[j][1]]
             rows == DOMAIN combined_df["timestamp"]
         IN  IF \A j \in DOMAIN model_cols : model_cols[j] \in DOMAIN combined_df
             THEN AddEnsembles(forecasts, k + 1,
                      [c \in DOMAIN combined_df \cup {metric \o "_ensemble", metric \o "_std"} |->
                          IF c = metric \o "_ensemble"
                          THEN [i \in rows |-> MeanOf(RowCells(combined_df, model_cols, i))]
                          ELSE IF c = metric \o "_std"
                          THEN [i \in rows |->
                                   StdCell(SampleVar(RowCells(combined_df, model_cols, i)))]
                          ELSE combined_df[c]])
             ELSE AddEnsembles(forecasts, k + 1, combined_df)

combine_forecasts(forecasts) ==
    IF forecasts = <<>> THEN None
    ELSE AddEnsembles(forecasts, 1, MergeModels(forecasts, 1, <<>>))

(***************************************************************************)
(* detect_anomalies.  z_score > t is decided on the squares:               *)
(* |x - mean| / std > t  iff  (x - mean)^2 > t^2 * var, for std > 0.       *)
(***************************************************************************)
Threshold == 2
HighSeverity == 3

\* population variance (ddof = 0)
PopulationVar(s) ==
    LET m == MeanOf(s)
        d == [i \in 1 .. Len(s) |->
                LET e == RatSub(s[i], m) IN RatMul(e, e)]
    IN  RatMul(RatSum(d), Rat(1, Len(s)))

\* AnomalyAt with std(ddof=0)
AnomalyAtPopulation(df, i, metric, threshold) ==
    LET var == PopulationVar(df[metric])
        dev == RatSub(df[metric][i], MeanOf(df[metric]))
        sq == RatMul(dev, dev)
        above(t) == RatLess(RatMul(RatOfInt(t * t), var), sq)
    IN  IF RatLess(RatOfInt(0), var) /\ above(threshold)
        THEN <<[timestamp |-> df["timestamp"][i],
                metric |-> metric,
                value |-> df[metric][i],
                z_score |-> [sqrt_of |-> Rat(sq[1] * var[2], sq[2] * var[1])],
                severity |-> IF above(HighSeverity) THEN "high" ELSE "medium"]>>
        ELSE <<>>

\* the body of the two loops of detect_anomalies for row i and metric: the
\* anomaly appended, if any.  std_val > 0 is False for NaN.
AnomalyAt(df, i, metric, threshold) ==
    LET var == SampleVar(df[metric])
        dev == RatSub(df[metric][i], MeanOf(df[metric]))
        sq == RatMul(dev, dev)
        above(t) == RatLess(RatMul(RatOfInt(t * t), var), sq)
    IN  IF var # NaN /\ RatLess(RatOfInt(0), var) /\ above(threshold)
        THEN <<[timestamp |-> df["timestamp"][i],
                metric |-> metric,
                value |-> df[metric][i],
                z_score |-> [sqrt_of |-> Rat(sq[1] * var[2], sq[2] * var[1])],
                severity |-> IF above(HighSeverity) THEN "high" ELSE "medium"]>>
        ELSE <<>>

RECURSIVE AnomaliesFrom(_, _, _, _)
\* rows in order, the three metrics in order within a row
AnomaliesFrom(df, i, k, threshold) ==
    IF i > NumRows(df) THEN <<>>
    ELSE IF k > Len(TrackedMetrics) THEN AnomaliesFrom(df, i + 1, 1, threshold)
    ELSE (IF TrackedMetrics[k] \in DOMAIN df
          THEN AnomalyAt(df, i, TrackedMetrics[k], threshold) ELSE <<>>)
             \o AnomaliesFrom(df, i, k + 1, threshold)

detect_anomalies(df, threshold) == AnomaliesFrom(df, 1, 1, threshold)

(***************************************************************************)
(* State.                                                                  *)
(***************************************************************************)
VARIABLES
    \* forecasting thread: position in run_forecasting_thread /
    \* start_scheduled_forecasting / run_forecasting_cycle
    thread_pc,
    \* LSTMForecaster and ProphetForecaster fields
    lstm_is_trained, lstm_sequence_length, prophet_is_trained, prophet_models,
    \* CloudPulseMLService fields; data_cache is the dict in insertion order,
    \* a sequence of [key, value]
    data_cache, latest_forecasts, latest_anomalies,
    \* locals of the cycle in flight
    endpoint_idx, all_metrics, aggregated_df, forecasts, combined_forecast, anomalies,
    \* the HTTP client polling the query surface: what its last
    \* GET /api/forecasts and GET /api/anomalies returned
    client_pc, seen,
    \* history of the run, for stating the properties
    h

backends == <<lstm_is_trained, lstm_sequence_length, prophet_is_trained, prophet_models>>
shared == <<data_cache, latest_forecasts, latest_anomalies>>
locals == <<endpoint_idx, all_metrics, aggregated_df, forecasts, combined_forecast, anomalies>>
client == <<client_pc, seen>>
vars == <<thread_pc, backends, shared, locals, client, h>>

NoLocals ==
    /\ endpoint_idx' = 0
    /\ all_metrics' = <<>>
    /\ aggregated_df' = None
    /\ forecasts' = <<>>
    /\ combined_forecast' = None
    /\ anomalies' = <<>>

\* __init__ of the service and of the two forecasters; the thread is started
Init ==
    /\ thread_pc = "load_trained_models"
    /\ lstm_is_trained = FALSE
    /\ lstm_sequence_length = 60
    /\ prophet_is_trained = FALSE
    /\ prophet_models = {}
    /\ data_cache = <<>>
    /\ latest_forecasts = EmptyDict
    /\ latest_anomalies = <<>>
    /\ endpoint_idx = 0
    /\ all_metrics = <<>>
    /\ aggregated_df = None
    /\ forecasts = <<>>
    /\ combined_forecast = None
    /\ anomalies = <<>>
    /\ client_pc = "idle"
    /\ seen = [forecasts_by |-> 0, forecasts_status |-> 200, anomalies_by |-> 0]
    /\ h = [cycles_started |-> 0,    \* calls of run_forecasting_cycle so far
            in_flight |-> 0,         \* calls that have not returned or raised
            outcome |-> "none",      \* how the last call ended
            \* shared state when the last call began
            pre |-> [latest_forecasts |-> EmptyDict, latest_anomalies |-> <<>>,
                     data_cache |-> <<>>],
            responses |-> <<>>,      \* the agents' answers of this collection
            predict_ok |-> {},       \* backends whose library calls went well
            put_key |-> 0,           \* key inserted by this cycle
            evicted |-> <<>>,        \* keys deleted by this cycle
            forecasts_by |-> 0,      \* cycle that assigned latest_forecasts
            anomalies_by |-> 0]      \* cycle that assigned latest_anomalies

(***************************************************************************)
(* The forecasting thread outside a cycle.                                 *)
(***************************************************************************)
SharedState == [latest_forecasts |-> latest_forecasts,
                latest_anomalies |-> latest_anomalies,
                data_cache |-> data_cache]

\* load_trained_models: each load either restores the saved state or raises
\* and is logged; lengths are the sequence lengths a saved LSTM may carry
LoadTrainedModels(lengths) ==
    /\ thread_pc = "load_trained_models"
    /\ \/ /\ \E n \in lengths : lstm_sequence_length' = n
          /\ lstm_is_trained' = TRUE
       \/ UNCHANGED <<lstm_is_trained, lstm_sequence_length>>
    /\ \/ /\ prophet_models' = Range(TrackedMetrics)
          /\ prophet_is_trained' = TRUE
       \/ UNCHANGED <<prophet_is_trained, prophet_models>>
    /\ thread_pc' = "initial_cycle"
    /\ UNCHANGED <<shared, locals, client, h>>

\* entry of run_forecasting_cycle
BeginCycle ==
    /\ thread_pc' = "collect"
    /\ endpoint_idx' = 1
    /\ all_metrics' = <<>>
    /\ h' = [h EXCEPT !.cycles_started = @ + 1,
                      !.in_flight = @ + 1,
                      !.outcome = "running",
                      !.pre = SharedState,
                      !.responses = <<>>,
                      !.predict_ok = {},
                      !.put_key = 0,
                      !.evicted = <<>>]
    /\ UNCHANGED <<aggregated_df, forecasts, combined_forecast, anomalies>>
    /\ UNCHANGED <<backends, shared, client>>

\* JobCallable for a scheduler that runs the job on a thread of its own
JobCallableAnytime ==
    thread_pc \notin {"load_trained_models", "initial_cycle", "thread_ended"}

\* the position from which the scheduler may call the job: run_pending is
\* called only by the loop of start_scheduled_forecasting, after the
\* previous call has returned
JobCallable == thread_pc = "run_pending"

\* line 290: the initial cycle
InitialCycle(limit) ==
    /\ thread_pc = "initial_cycle"
    /\ h.cycles_started < limit
    /\ BeginCycle

\* schedule.run_pending() with the job due: the job runs in this thread
RunPendingDue(limit) ==
    /\ JobCallable
    /\ h.cycles_started < limit
    /\ BeginCycle

\* schedule.run_pending() with the job not yet due
RunPendingIdle ==
    /\ thread_pc = "run_pending"
    /\ thread_pc' = "sleep"
    /\ UNCHANGED <<backends, shared, locals, client, h>>

\* time.sleep(60)
Sleep ==
    /\ thread_pc = "sleep"
    /\ thread_pc' = "run_pending"
    /\ UNCHANGED <<backends, shared, locals, client, h>>

(***************************************************************************)
(* run_forecasting_cycle, statement by statement.                          *)
(***************************************************************************)
\* the call returns: back in start_scheduled_forecasting, the initial call
\* is followed by the loop, a scheduled call by time.sleep
ReturnFromCycle(outcome) ==
    /\ thread_pc' = IF h.cycles_started = 1 THEN "run_pending" ELSE "sleep"
    /\ h' = [h EXCEPT !.in_flight = @ - 1, !.outcome = outcome, !.responses = <<>>]
    /\ NoLocals

\* an exception leaves the call: neither run_pending nor
\* start_scheduled_forecasting catches it, run_forecasting_thread logs it
\* and the thread ends
RaiseFromCycle(outcome) ==
    /\ thread_pc' = "thread_ended"
    /\ h' = [h EXCEPT !.in_flight = @ - 1, !.outcome = outcome, !.responses = <<>>]
    /\ NoLocals

\* collect_metrics_from_agents: one endpoint of the loop; pool is what the
\* agents can answer
Fetch(pool) ==
    /\ thread_pc = "collect"
    /\ endpoint_idx <= NumEndpoints
    /\ \E r \in Responses(endpoint_idx) \cap pool :
          LET res == AfterFetch(all_metrics, endpoint_idx, r) IN
          IF res.raised
          THEN /\ RaiseFromCycle("collect_raised")
               /\ UNCHANGED <<backends, shared, client>>
          ELSE /\ all_metrics' = res.all_metrics
               /\ endpoint_idx' = endpoint_idx + 1
               /\ h' = [h EXCEPT !.responses = Append(@, r)]
               /\ UNCHANGED <<thread_pc, aggregated_df, forecasts,
                              combined_forecast, anomalies>>
               /\ UNCHANGED <<backends, shared, client>>

\* NoMetrics that publishes "nothing" before it returns
NoMetricsPublishesEmpty ==
    /\ thread_pc = "collect"
    /\ endpoint_idx > NumEndpoints
    /\ all_metrics = <<>>
    /\ ReturnFromCycle("no_metrics")
    /\ latest_forecasts' = None
    /\ latest_anomalies' = <<>>
    /\ UNCHANGED <<backends, data_cache, client>>

\* lines 241-243: nothing collected, early return
NoMetrics ==
    /\ thread_pc = "collect"
    /\ endpoint_idx > NumEndpoints
    /\ all_metrics = <<>>
    /\ ReturnFromCycle("no_metrics")
    /\ UNCHANGED <<backends, shared, client>>

\* lines 246-247: process_metrics_data and aggregate_node_metrics
Process ==
    /\ thread_pc = "collect"
    /\ endpoint_idx > NumEndpoints
    /\ all_metrics # <<>>
    /\ LET df == process_metrics_data(all_metrics) IN
       IF df = KeyError
       THEN RaiseFromCycle("process_raised")
       ELSE /\ aggregated_df' = aggregate_node_metrics(df)
            /\ thread_pc' = "cache_put"
            /\ h' = [h EXCEPT !.responses = <<>>]
            /\ UNCHANGED <<endpoint_idx, all_metrics, forecasts,
                           combined_forecast, anomalies>>
    /\ UNCHANGED <<backends, shared, client>>

\* self.data_cache[key] = value: a new key is appended, an existing key
\* keeps its place and takes the new value
CachePutOp(cache, key, value) ==
    IF \E i \in DOMAIN cache : cache[i].key = key
    THEN [i \in DOMAIN cache |->
             IF cache[i].key = key THEN [key |-> key, value |-> value] ELSE cache[i]]
    ELSE Append(cache, [key |-> key, value |-> value])

CacheKeys(cache) == {cache[i].key : i \in DOMAIN cache}

\* min(self.data_cache.keys())
OldestKey(cache) == CHOOSE k \in CacheKeys(cache) : \A k2 \in CacheKeys(cache) : k <= k2

\* del self.data_cache[key]
CacheDelete(cache, key) ==
    SelectSeq(cache, LAMBDA e : e.key # key)

\* KeysToEvict with >= for >
KeysToEvictAtLimit(cache) ==
    IF Len(cache) >= CacheLimit THEN <<OldestKey(cache)>> ELSE <<>>

\* lines 253-255: the keys to delete
KeysToEvict(cache) ==
    IF Len(cache) > CacheLimit THEN <<OldestKey(cache)>> ELSE <<>>

\* line 250; instants are the values datetime.now() can return
CachePut(instants) ==
    /\ thread_pc = "cache_put"
    /\ \E now \in instants :
          /\ data_cache' = CachePutOp(data_cache, now, aggregated_df)
          /\ h' = [h EXCEPT !.put_key = now]
    /\ thread_pc' = "cache_trim"
    /\ UNCHANGED <<latest_forecasts, latest_anomalies>>
    /\ UNCHANGED <<backends, locals, client>>

\* CacheTrim followed by train_models on the cached data
CacheTrimAndTrain ==
    /\ thread_pc = "cache_trim"
    /\ LET gone == KeysToEvict(data_cache) IN
          /\ data_cache' = IF gone = <<>> THEN data_cache
                           ELSE CacheDelete(data_cache, gone[1])
          /\ h' = [h EXCEPT !.evicted = gone]
    /\ thread_pc' = "forecast_lstm"
    /\ prophet_is_trained' = TRUE
    /\ prophet_models' = Range(TrackedMetrics)
    /\ UNCHANGED <<lstm_is_trained, lstm_sequence_length>>
    /\ UNCHANGED <<latest_forecasts, latest_anomalies>>
    /\ UNCHANGED <<locals, client>>

\* lines 253-255
CacheTrim ==
    /\ thread_pc = "cache_trim"
    /\ LET gone == KeysToEvict(data_cache) IN
          /\ data_cache' = IF gone = <<>> THEN data_cache
                           ELSE CacheDelete(data_cache, gone[1])
          /\ h' = [h EXCEPT !.evicted = gone]
    /\ thread_pc' = "forecast_lstm"
    /\ UNCHANGED <<latest_forecasts, latest_anomalies>>
    /\ UNCHANGED <<backends, locals, client>>

\* TryLstm without the except clause
TryLstmUncaught(acc, df, ok) ==
    IF ~lstm_is_trained THEN [raised |-> FALSE, forecasts |-> acc]
    ELSE LET lstm_pred == LstmPredict(df, Range(TrackedMetrics), lstm_sequence_length, ok)
         IN  IF lstm_pred = ValueError
             THEN [raised |-> TRUE, forecasts |-> acc]
             ELSE [raised |-> FALSE, forecasts |-> Append(acc, <<"lstm", lstm_pred>>)]

\* generate_forecasts, lines 158-164: the LSTM try block on the forecasts
\* so far: the flag is read, predict is called, and an exception of either
\* is logged by the except clause.  ok is the fate of the library calls.
TryLstm(acc, df, ok) ==
    IF ~lstm_is_trained THEN [raised |-> FALSE, forecasts |-> acc]
    ELSE LET lstm_pred == LstmPredict(df, Range(TrackedMetrics), lstm_sequence_length, ok)
         IN  IF lstm_pred = ValueError
             THEN [raised |-> FALSE, forecasts |-> acc]
             ELSE [raised |-> FALSE, forecasts |-> Append(acc, <<"lstm", lstm_pred>>)]

\* generate_forecasts, lines 167-173: the Prophet try block
TryProphet(acc, df, ok) ==
    IF ~prophet_is_trained THEN [raised |-> FALSE, forecasts |-> acc]
    ELSE LET prophet_pred == ProphetPredict(df, prophet_models, ok)
         IN  IF prophet_pred = ValueError
             THEN [raised |-> FALSE, forecasts |-> acc]
             ELSE [raised |-> FALSE, forecasts |-> Append(acc, <<"prophet", prophet_pred>>)]

ForecastLstm ==
    /\ thread_pc = "forecast_lstm"
    /\ \E ok \in BOOLEAN :
          LET res == TryLstm(<<>>, aggregated_df, ok) IN
          IF res.raised
          THEN RaiseFromCycle("forecast_raised")
          ELSE /\ forecasts' = res.forecasts
               /\ h' = [h EXCEPT !.predict_ok = IF ok THEN {"lstm"} ELSE {}]
               /\ thread_pc' = "forecast_prophet"
               /\ UNCHANGED <<endpoint_idx, all_metrics, aggregated_df,
                              combined_forecast, anomalies>>
    /\ UNCHANGED <<backends, shared, client>>

ForecastProphet ==
    /\ thread_pc = "forecast_prophet"
    /\ \E ok \in BOOLEAN :
          LET res == TryProphet(forecasts, aggregated_df, ok) IN
          IF res.raised
          THEN RaiseFromCycle("forecast_raised")
          ELSE /\ forecasts' = res.forecasts
               /\ h' = [h EXCEPT !.predict_ok = IF ok THEN @ \cup {"prophet"} ELSE @]
               /\ thread_pc' = "combine"
               /\ UNCHANGED <<endpoint_idx, all_metrics, aggregated_df,
                              combined_forecast, anomalies>>
    /\ UNCHANGED <<backends, shared, client>>

\* line 259
Combine ==
    /\ thread_pc = "combine"
    /\ combined_forecast' = combine_forecasts(forecasts)
    /\ thread_pc' = "detect"
    /\ UNCHANGED <<endpoint_idx, all_metrics, aggregated_df, forecasts, anomalies>>
    /\ UNCHANGED <<backends, shared, client, h>>

\* line 262
Detect ==
    /\ thread_pc = "detect"
    /\ anomalies' = detect_anomalies(aggregated_df, Threshold)
    /\ thread_pc' = "publish_forecasts"
    /\ UNCHANGED <<endpoint_idx, all_metrics, aggregated_df, forecasts, combined_forecast>>
    /\ UNCHANGED <<backends, shared, client, h>>

\* line 265
PublishForecasts ==
    /\ thread_pc = "publish_forecasts"
    /\ latest_forecasts' = combined_forecast
    /\ h' = [h EXCEPT !.forecasts_by = h.cycles_started]
    /\ thread_pc' = "publish_anomalies"
    /\ UNCHANGED <<data_cache, latest_anomalies>>
    /\ UNCHANGED <<backends, locals, client>>

\* line 266
PublishAnomalies ==
    /\ thread_pc = "publish_anomalies"
    /\ latest_anomalies' = anomalies
    /\ h' = [h EXCEPT !.anomalies_by = h.cycles_started]
    /\ thread_pc' = "return"
    /\ UNCHANGED <<data_cache, latest_forecasts>>
    /\ UNCHANGED <<backends, locals, client>>

\* lines 269-277
Return ==
    /\ thread_pc = "return"
    /\ ReturnFromCycle("published")
    /\ UNCHANGED <<backends, shared, client>>

(***************************************************************************)
(* The request-serving path (Flask), concurrent with the thread above.  A  *)
(* client polls /api/forecasts and then /api/anomalies.                    *)
(***************************************************************************)
\* jsonify(value): Flask's JSON provider serializes None, dicts and lists;
\* a DataFrame is not serializable and the request ends with status 500
JsonifyStatus(value) == IF "type" \in DOMAIN value THEN 200 ELSE 500

\* GET /api/forecasts
GetForecasts ==
    /\ client_pc = "idle"
    /\ seen' = [forecasts_by |-> h.forecasts_by,
                forecasts_status |-> JsonifyStatus(latest_forecasts),
                anomalies_by |-> -1]
    /\ client_pc' = "has_forecasts"
    /\ UNCHANGED <<thread_pc, backends, shared, locals, h>>

\* GET /api/anomalies
GetAnomalies ==
    /\ client_pc = "has_forecasts"
    /\ seen' = [seen EXCEPT !.anomalies_by = h.anomalies_by]
    /\ client_pc' = "idle"
    /\ UNCHANGED <<thread_pc, backends, shared, locals, h>>

(***************************************************************************)
(* Specifications.                                                         *)
(***************************************************************************)
AllResponses == UNION {Responses(e) : e \in Endpoints}
\* sequence_length of the LSTM saved on disk
LoadableLengths == {1}

\* the service with unreliable agents, any model files, a polling client and
\* a wall clock that advances from one cycle to the next
Next ==
    \/ LoadTrainedModels(LoadableLengths)
    \/ InitialCycle(MaxCycles)
    \/ RunPendingDue(MaxCycles)
    \/ RunPendingIdle
    \/ Sleep
    \/ Fetch(AllResponses)
    \/ NoMetrics
    \/ Process
    \/ CachePut({h.cycles_started})
    \/ CacheTrim
    \/ ForecastLstm
    \/ ForecastProphet
    \/ Combine
    \/ Detect
    \/ PublishForecasts
    \/ PublishAnomalies
    \/ Return
    \/ GetForecasts
    \/ GetAnomalies

Spec == Init /\ [][Next]_vars

\* a fresh deployment (no LSTM files on disk) with healthy agents and an
\* arbitrary wall clock, run long enough to overfill the cache
HealthyResponses == {[status |-> 200, body |-> GoodDoc(e, 1)] : e \in Endpoints}

NextCache ==
    \/ LoadTrainedModels({})
    \/ InitialCycle(CacheCycles)
    \/ RunPendingDue(CacheCycles)
    \/ RunPendingIdle
    \/ Sleep
    \/ Fetch(HealthyResponses)
    \/ Process
    \/ CachePut(Instants)
    \/ CacheTrim
    \/ ForecastLstm
    \/ ForecastProphet
    \/ Combine
    \/ Detect
    \/ PublishForecasts
    \/ PublishAnomalies
    \/ Return

SpecCache == Init /\ [][NextCache]_vars

\* combine_forecasts on its own: every mapping of up to two backends to
\* frames over the columns below
InputColumns == {"cpu_usage", "memory_usage", "network_io", "cpu_usage_predicted"}
BackendNames == {"lstm", "prophet"}

InputFrame(name, cols) ==
    [c \in {"timestamp"} \cup cols |->
        IF c = "timestamp" THEN [i \in 1 .. Horizon |-> i]
        ELSE [i \in 1 .. Horizon |->
                 RatOfInt(IF name = "lstm" THEN 10 * i ELSE 10 * i + 20)]]

CombineInputs ==
    {<<>>}
        \cup {<<<<n, InputFrame(n, cols)>>>> : n \in BackendNames, cols \in SUBSET InputColumns}
        \cup {<<<<n[1], InputFrame(n[1], c1)>>, <<n[2], InputFrame(n[2], c2)>>>> :
                 n \in {<<"lstm", "prophet">>, <<"prophet", "lstm">>},
                 c1 \in SUBSET InputColumns, c2 \in SUBSET InputColumns}

InitCombine ==
    /\ thread_pc = "combine"
    /\ forecasts \in CombineInputs
    /\ lstm_is_trained = FALSE
    /\ lstm_sequence_length = 60
    /\ prophet_is_trained = FALSE
    /\ prophet_models = {}
    /\ data_cache = <<>>
    /\ latest_forecasts = EmptyDict
    /\ latest_anomalies = <<>>
    /\ endpoint_idx = 0
    /\ all_metrics = <<>>
    /\ aggregated_df = None
    /\ combined_forecast = None
    /\ anomalies = <<>>
    /\ client_pc = "idle"
    /\ seen = [forecasts_by |-> 0, forecasts_status |-> 200, anomalies_by |-> 0]
    /\ h = [cycles_started |-> 0, in_flight |-> 0, outcome |-> "none",
            pre |-> [latest_forecasts |-> EmptyDict, latest_anomalies |-> <<>>,
                     data_cache |-> <<>>],
            responses |-> <<>>, predict_ok |-> {}, put_key |-> 0, evicted |-> <<>>,
            forecasts_by |-> 0, anomalies_by |-> 0]

NextCombine == Combine

SpecCombine == InitCombine /\ [][NextCombine]_vars

\* detect_anomalies on its own: snapshot sets of 1 .. MaxRows rows with
\* cpu_usage over three values and of LongRows rows with cpu_usage peaking in
\* one or two rows; memory_usage is constant and network_io has its peak in
\* the first row
CpuColumns ==
    UNION {[1 .. n -> {0, 2, 6}] : n \in 1 .. MaxRows}
        \cup {[i \in 1 .. LongRows |-> IF i \in {a, b} THEN 1 ELSE 0] :
                 a \in 1 .. LongRows, b \in 1 .. LongRows}

SnapshotFrame(cpu) ==
    [c \in {"timestamp", "cpu_usage", "memory_usage", "network_io"} |->
        CASE c = "timestamp" -> [i \in DOMAIN cpu |-> i]
          [] c = "cpu_usage" -> [i \in DOMAIN cpu |-> RatOfInt(cpu[i])]
          [] c = "memory_usage" -> [i \in DOMAIN cpu |-> RatOfInt(40)]
          [] c = "network_io" -> [i \in DOMAIN cpu |-> RatOfInt(IF i = 1 THEN 9 ELSE 3)]]

DetectInputs == {SnapshotFrame(cpu) : cpu \in CpuColumns}

InitDetect ==
    /\ thread_pc = "detect"
    /\ aggregated_df \in DetectInputs
    /\ lstm_is_trained = FALSE
    /\ lstm_sequence_length = 60
    /\ prophet_is_trained = FALSE
    /\ prophet_models = {}
    /\ data_cache = <<>>
    /\ latest_forecasts = EmptyDict
    /\ latest_anomalies = <<>>
    /\ endpoint_idx = 0
    /\ all_metrics = <<>>
    /\ forecasts = <<>>
    /\ combined_forecast = None
    /\ anomalies = <<>>
    /\ client_pc = "idle"
    /\ seen = [forecasts_by |-> 0, forecasts_status |-> 200, anomalies_by |-> 0]
    /\ h = [cycles_started |-> 0, in_flight |-> 0, outcome |-> "none",
            pre |-> [latest_forecasts |-> EmptyDict, latest_anomalies |-> <<>>,
                     data_cache |-> <<>>],
            responses |-> <<>>, predict_ok |-> {}, put_key |-> 0, evicted |-> <<>>,
            forecasts_by |-> 0, anomalies_by |-> 0]

NextDetect == Detect

SpecDetect == InitDetect /\ [][NextDetect]_vars

\* process_metrics_data and aggregate_node_metrics on their own: every
\* endpoint has answered, with a document of any of the timestamps and
\* readings below or with a non-200 status, and at least one document was
\* collected
RecordTimes == {1, 2, 3}
CpuReadings == {10, 20}
MemoryReadings == {40, 50}

AgentDoc(e, t, c, m) ==
    [timestamp |-> t, node_id |-> e,
     cpu |-> [usage_percent |-> c],
     memory |-> [used_percent |-> m],
     network |-> [bytes_sent |-> e, bytes_recv |-> 2]]

RecordResponses(e) ==
    {[status |-> 200, body |-> AgentDoc(e, t, c, m)] :
        t \in RecordTimes, c \in CpuReadings, m \in MemoryReadings}
        \cup {[status |-> 503]}

RECURSIVE CollectAll(_, _, _)
\* the loop of collect_metrics_from_agents over the answers responses
CollectAll(responses, e, acc) ==
    IF e > Len(responses) THEN acc
    ELSE CollectAll(responses, e + 1, AfterFetch(acc, e, responses[e]).all_metrics)

InitAggregate ==
    /\ thread_pc = "collect"
    /\ endpoint_idx = NumEndpoints + 1
    /\ \E responses \in [Endpoints -> UNION {RecordResponses(e) : e \in Endpoints}] :
          /\ \A e \in Endpoints : responses[e] \in RecordResponses(e)
          /\ all_metrics = CollectAll(responses, 1, <<>>)
    /\ all_metrics # <<>>
    /\ lstm_is_trained = FALSE
    /\ lstm_sequence_length = 60
    /\ prophet_is_trained = FALSE
    /\ prophet_models = {}
    /\ data_cache = <<>>
    /\ latest_forecasts = EmptyDict
    /\ latest_anomalies = <<>>
    /\ aggregated_df = None
    /\ forecasts = <<>>
    /\ combined_forecast = None
    /\ anomalies = <<>>
    /\ client_pc = "idle"
    /\ seen = [forecasts_by |-> 0, forecasts_status |-> 200, anomalies_by |-> 0]
    /\ h = [cycles_started |-> 1, in_flight |-> 1, outcome |-> "running",
            pre |-> [latest_forecasts |-> EmptyDict, latest_anomalies |-> <<>>,
                     data_cache |-> <<>>],
            responses |-> <<>>, predict_ok |-> {}, put_key |-> 0, evicted |-> <<>>,
            forecasts_by |-> 0, anomalies_by |-> 0]

NextAggregate == Process

SpecAggregate == InitAggregate /\ [][NextAggregate]_vars

(***************************************************************************)
(* Properties.                                                             *)
(***************************************************************************)
CollectReturned == thread_pc = "collect" /\ endpoint_idx > NumEndpoints
ThreadSteps == thread_pc' # thread_pc
AfterForecasting ==
    thread_pc \in {"combine", "detect", "publish_forecasts", "publish_anomalies", "return"}
ForecastNames == {forecasts[j][1] : j \in DOMAIN forecasts}

\* C1: when collect_metrics_from_agents returns no document, the next step of
\* the thread ends the call by returning, and latest_forecasts,
\* latest_anomalies and data_cache are then what they were when the call began.
NoMetricsCycleIsNoOp ==
    [][(CollectReturned /\ all_metrics = <<>> /\ ThreadSteps)
          => /\ h'.outcome = "no_metrics"
             /\ h'.in_flight = 0
             /\ thread_pc' \in {"run_pending", "sleep"}
             /\ SharedState' = h.pre]_vars

\* a second cycle collected nothing after a first one had published
NoMetricsAfterPublishing ==
    /\ h.outcome = "no_metrics"
    /\ h.cycles_started = 2
    /\ h.forecasts_by = 1
    /\ h.anomalies_by = 1
    /\ Len(data_cache) = 1

MalformedCollected == \E i \in DOMAIN all_metrics : ~HasRequiredFields(all_metrics[i])

\* C2: when a collected document lacks a required field, the next step of
\* the thread is process_metrics_data raising out of the call, and
\* latest_forecasts, latest_anomalies and data_cache are then what they were
\* when the call began.
MalformedDocumentAbortsCycle ==
    [][(CollectReturned /\ MalformedCollected /\ ThreadSteps)
          => /\ h'.outcome = "process_raised"
             /\ h'.in_flight = 0
             /\ thread_pc' = "thread_ended"
             /\ SharedState' = h.pre]_vars

\* a second cycle was aborted after a first one had published
AbortedAfterPublishing ==
    /\ h.outcome = "process_raised"
    /\ h.cycles_started = 2
    /\ h.forecasts_by = 1
    /\ h.anomalies_by = 1
    /\ Len(data_cache) = 1

\* C3: a client that is answered /api/forecasts and then /api/anomalies
\* never holds forecasts assigned by a cycle together with anomalies
\* assigned by an earlier one.
NoTornPair ==
    ~(/\ client_pc = "idle"
      /\ seen.forecasts_status = 200
      /\ seen.anomalies_by >= 0
      /\ seen.anomalies_by < seen.forecasts_by)

\* C4: outside the two statements that insert and trim, data_cache holds at
\* most CacheLimit entries; the trim removes exactly one entry when the
\* insertion made the size exceed CacheLimit and none otherwise.
CacheBoundedOneEviction ==
    [][/\ thread_pc' # "cache_trim" => Len(data_cache') <= CacheLimit
       /\ (thread_pc = "cache_trim" /\ ThreadSteps)
             => IF Len(data_cache) > CacheLimit
                THEN /\ Len(data_cache') = Len(data_cache) - 1
                     /\ CacheKeys(data_cache') \subseteq CacheKeys(data_cache)
                ELSE data_cache' = data_cache]_vars

\* the trim has just removed an entry of an overfull cache
CacheTrimmed ==
    /\ thread_pc = "forecast_lstm"
    /\ Len(h.evicted) = 1
    /\ Len(data_cache) = CacheLimit
    /\ Len(h.pre.data_cache) = CacheLimit

\* C5: the entry the trim removes is the first of the dict, the one
\* inserted earliest, and never the entry the cycle has just inserted.
EvictsEarliestInserted ==
    (thread_pc = "forecast_lstm" /\ h.evicted # <<>>)
        => /\ h.evicted[1] = h.pre.data_cache[1].key
           /\ h.evicted[1] # h.put_key

CyclePositions ==
    {"collect", "cache_put", "cache_trim", "forecast_lstm", "forecast_prophet",
     "combine", "detect", "publish_forecasts", "publish_anomalies", "return"}

\* C6: at most one call of run_forecasting_cycle is in flight, and the
\* thread is inside the call exactly when one is.
AtMostOneCycleInFlight ==
    /\ h.in_flight \in {0, 1}
    /\ h.in_flight = 1 <=> thread_pc \in CyclePositions

\* a scheduled cycle is in flight while the client is between two requests
ScheduledCycleDuringRequests ==
    /\ h.in_flight = 1
    /\ h.cycles_started = 2
    /\ client_pc = "has_forecasts"

ExpectedForecasters ==
    {b \in h.predict_ok :
        \/ b = "lstm" /\ lstm_is_trained /\ NumRows(aggregated_df) >= lstm_sequence_length
        \/ b = "prophet" /\ prophet_is_trained /\ prophet_models # {}}

\* C7: no exception of a backend leaves the call; after the two try blocks
\* the forecast set holds exactly the trained backends whose predict went
\* well, whatever happened to the other backend; the published anomalies
\* are those of this cycle's snapshot.
BackendsFaultIsolated ==
    /\ h.outcome # "forecast_raised"
    /\ thread_pc = "forecast_prophet" => ForecastNames = ExpectedForecasters
    /\ AfterForecasting => ForecastNames = ExpectedForecasters
    /\ thread_pc = "return"
          => /\ h.anomalies_by = h.cycles_started
             /\ latest_anomalies = detect_anomalies(aggregated_df, Threshold)

\* both backends trained, the LSTM predict raised, Prophet's forecast is there
ProphetSurvivesLstmFailure ==
    /\ thread_pc = "return"
    /\ lstm_is_trained /\ prophet_is_trained
    /\ h.predict_ok = {"prophet"}
    /\ ForecastNames = {"prophet"}

RECURSIVE ExpectedDocs(_, _)
ExpectedDocs(responses, e) ==
    IF e > Len(responses) THEN <<>>
    ELSE (IF responses[e].status = 200
          THEN <<[k \in DOMAIN responses[e].body \cup {"node_endpoint"} |->
                     IF k = "node_endpoint" THEN e ELSE responses[e].body[k]]>>
          ELSE <<>>) \o ExpectedDocs(responses, e + 1)

\* C8: no exception leaves collect_metrics_from_agents; every endpoint is
\* fetched; all_metrics is the documents of the 200 answers so far, in
\* endpoint order, each with node_endpoint set to its endpoint.
CollectorToleratesAgents ==
    /\ h.outcome # "collect_raised"
    /\ thread_pc = "collect"
          => /\ Len(h.responses) = endpoint_idx - 1
             /\ all_metrics = ExpectedDocs(h.responses, 1)

\* the first agent failed with an exception, the second one was collected
LaterAgentCollected ==
    /\ CollectReturned
    /\ h.responses[1].status = 0
    /\ h.responses[NumEndpoints].status = 200
    /\ Len(all_metrics) >= 1

ReportedByAll(metric) == \A j \in DOMAIN forecasts : metric \in DOMAIN forecasts[j][2]

\* C9: combine_forecasts gives a tracked metric its _ensemble and _std
\* columns exactly when every backend of the mapping has a column of that
\* metric.
EnsembleIffAllBackends ==
    (thread_pc = "detect" /\ forecasts # <<>>)
        => \A k \in DOMAIN TrackedMetrics :
              LET metric == TrackedMetrics[k] IN
              /\ (metric \o "_ensemble") \in DOMAIN combined_forecast <=> ReportedByAll(metric)
              /\ (metric \o "_std") \in DOMAIN combined_forecast <=> ReportedByAll(metric)

\* two backends, cpu_usage from both, memory_usage from one only
PartialMetricNotCombined ==
    /\ thread_pc = "detect"
    /\ Len(forecasts) = 2
    /\ "cpu_usage_ensemble" \in DOMAIN combined_forecast
    /\ "memory_usage" \in DOMAIN forecasts[1][2]
    /\ "memory_usage" \notin DOMAIN forecasts[2][2]
    /\ "memory_usage_ensemble" \notin DOMAIN combined_forecast

\* C10: when both the LSTM and the Prophet forecast are in the forecast set,
\* the published forecast has, for each tracked metric, the columns
\* <metric>_lstm and <metric>_prophet and <metric>_ensemble, the latter
\* the row-wise mean of the former two.
BothBackendsPublishEnsemble ==
    (thread_pc = "return" /\ ForecastNames = {"lstm", "prophet"})
        => \A k \in DOMAIN TrackedMetrics :
              LET metric == TrackedMetrics[k]
                  a == metric \o "_lstm"
                  b == metric \o "_prophet"
                  e == metric \o "_ensemble"
              IN  /\ {a, b, e} \subseteq DOMAIN latest_forecasts
                  /\ \A i \in 1 .. Horizon :
                        latest_forecasts[e][i] =
                            MeanOf(<<latest_forecasts[a][i], latest_forecasts[b][i]>>)

\* sum of the squared deviations from the mean
SumSqDev(s) ==
    LET m == MeanOf(s)
    IN  RatSum([i \in 1 .. Len(s) |-> LET e == RatSub(s[i], m) IN RatMul(e, e)])

\* |s[i] - mean| / std > t, where std^2 = SumSqDev(s) / denom and std > 0
ZScoreAbove(s, i, t, denom) ==
    LET e == RatSub(s[i], MeanOf(s))
    IN  /\ RatLess(RatOfInt(0), SumSqDev(s))
        /\ RatLess(RatMul(RatOfInt(t * t), SumSqDev(s)),
                   RatMul(RatOfInt(denom), RatMul(e, e)))

\* the anomalies the z-score rule asks for, std taken with denominator
\* Len - ddof
ExpectedAnomalies(df, ddof) ==
    {[timestamp |-> df["timestamp"][i], metric |-> TrackedMetrics[k],
      value |-> df[TrackedMetrics[k]][i],
      severity |-> IF ZScoreAbove(df[TrackedMetrics[k]], i, HighSeverity, NumRows(df) - ddof)
                   THEN "high" ELSE "medium"] :
        <<i, k>> \in {p \in (1 .. NumRows(df)) \X DOMAIN TrackedMetrics :
                        ZScoreAbove(df[TrackedMetrics[p[2]]], p[1], Threshold,
                                    NumRows(df) - ddof)}}

ReportedAnomalies ==
    {[timestamp |-> anomalies[j].timestamp, metric |-> anomalies[j].metric,
      value |-> anomalies[j].value, severity |-> anomalies[j].severity] :
        j \in DOMAIN anomalies}

Detected == thread_pc = "publish_forecasts" /\ NumRows(aggregated_df) >= 2

\* C11 (as stated): on a snapshot set of at least 2 rows detect_anomalies
\* emits one anomaly for exactly the (row, metric) pairs with
\* |value - mean| / std > threshold, std the population standard deviation
\* of the metric over the snapshot set, with severity high iff z > 3; a
\* metric with std = 0 gives none.
AnomaliesByPopulationStd ==
    Detected
        => /\ ReportedAnomalies = ExpectedAnomalies(aggregated_df, 0)
           /\ Len(anomalies) = Cardinality(ReportedAnomalies)

\* C11 (amended): the same with std the sample standard deviation
\* (denominator n - 1) of the metric over the snapshot set; the anomalies
\* come in row order.
AnomaliesBySampleStd ==
    Detected
        => /\ ReportedAnomalies = ExpectedAnomalies(aggregated_df, 1)
           /\ Len(anomalies) = Cardinality(ReportedAnomalies)
           /\ \A j \in DOMAIN anomalies : anomalies[j].metric # "memory_usage"
           /\ \A j \in 1 .. Len(anomalies) - 1 :
                 anomalies[j].timestamp <= anomalies[j + 1].timestamp

\* a snapshot set with a high anomaly and a medium anomaly of cpu_usage
HighAndMediumDetected ==
    /\ Detected
    /\ \E j \in DOMAIN anomalies : anomalies[j].severity = "high"
    /\ \E j \in DOMAIN anomalies :
          anomalies[j].severity = "medium" /\ anomalies[j].metric = "cpu_usage"

IsFrame(value) == "timestamp" \in DOMAIN value

\* C12: after a cycle in which agents returned data and no backend produced
\* a forecast, latest_forecasts (what GET /api/forecasts returns) is still
\* the combined forecast that was published when that cycle began.
StaleForecastKept ==
    (thread_pc = "return" /\ forecasts = <<>> /\ IsFrame(h.pre.latest_forecasts))
        => latest_forecasts = h.pre.latest_forecasts

\* the reading of a collected document that goes into column c
Reading(m, c) ==
    CASE c = "cpu_usage" -> m.cpu.usage_percent
      [] c = "memory_usage" -> m.memory.used_percent
      [] c = "network_io" -> m.network.bytes_sent + m.network.bytes_recv
      [] c = "count" -> 1

RECURSIVE SumOfField(_, _, _)
\* sum of the reading c over the collected documents with timestamp t
SumOfField(docs, t, c) ==
    IF docs = <<>> THEN 0
    ELSE (IF Head(docs).timestamp = t THEN Reading(Head(docs), c) ELSE 0)
            + SumOfField(Tail(docs), t, c)

\* C13: the frame aggregate_node_metrics returns has exactly one row per
\* distinct timestamp of the records, in ascending timestamp order whatever
\* the order of the records, and in each row cpu_usage, memory_usage and
\* network_io are the sum of the readings of the records with that
\* timestamp divided by their number.
OneMeanRowPerTimestamp ==
    thread_pc = "cache_put"
        => LET ts == aggregated_df["timestamp"]
               count(i) == SumOfField(all_metrics, ts[i], "count")
           IN  /\ DOMAIN aggregated_df =
                     {"timestamp", "cpu_usage", "memory_usage", "network_io"}
               /\ Range(ts) = {all_metrics[j].timestamp : j \in DOMAIN all_metrics}
               /\ \A i \in 1 .. Len(ts) - 1 : ts[i] < ts[i + 1]
               /\ \A i \in DOMAIN ts :
                     /\ aggregated_df["cpu_usage"][i] =
                            Rat(SumOfField(all_metrics, ts[i], "cpu_usage"), count(i))
                     /\ aggregated_df["memory_usage"][i] =
                            Rat(SumOfField(all_metrics, ts[i], "memory_usage"), count(i))
                     /\ aggregated_df["network_io"][i] =
                            Rat(SumOfField(all_metrics, ts[i], "network_io"), count(i))
               /\ \A c \in DOMAIN aggregated_df : Len(aggregated_df[c]) = Len(ts)

\* two nodes reported the same timestamp with cpu 10 and 20: one row, cpu 15
TwoNodesOneRow ==
    /\ thread_pc = "cache_put"
    /\ Len(all_metrics) = 2
    /\ all_metrics[1].timestamp = all_metrics[2].timestamp
    /\ all_metrics[1].cpu.usage_percent = 10
    /\ all_metrics[2].cpu.usage_percent = 20
    /\ NumRows(aggregated_df) = 1
    /\ aggregated_df["cpu_usage"] = <<RatOfInt(15)>>

\* C14: after a cycle (the initial one or a scheduled one) was aborted by a
\* document that lacks a field, the forecasting thread is still in the loop
\* of start_scheduled_forecasting, between run_pending and sleep, from where
\* the next scheduled cycle is started.
SchedulerSurvivesAbort ==
    h.outcome = "process_raised" => thread_pc \in {"run_pending", "sleep"}

NeitherLoaded ==
    /\ thread_pc # "load_trained_models"
    /\ ~lstm_is_trained
    /\ ~prophet_is_trained

\* C15: no step after load_trained_models changes is_trained of either
\* backend; and when neither backend was loaded, the forecast set of every
\* cycle is empty after generate_forecasts and latest_forecasts is never a
\* combined forecast.
CyclesNeverTrain ==
    [][/\ thread_pc # "load_trained_models"
          => UNCHANGED <<lstm_is_trained, prophet_is_trained>>
       /\ NeitherLoaded'
          => /\ AfterForecasting' => forecasts' = <<>>
             /\ ~IsFrame(latest_forecasts')]_vars

\* no model was loaded and the second cycle has published
UntrainedSecondCyclePublished ==
    /\ NeitherLoaded
    /\ thread_pc = "return"
    /\ h.cycles_started = 2
    /\ h.pre.latest_forecasts = None
    /\ latest_forecasts = None
    /\ forecasts = <<>>

====
